---- MODULE Spec2Model ----
(***************************************************************************)
(* Model of the plotting helpers of eda_palmer_penguins_packages:          *)
(*   categorical_analysis/cateogry.py                                      *)
(*       plot_category_count, plot_category_proportions,                   *)
(*       plot_categorical_vs_numeric                                       *)
(*   numerical_analysis/numerical.py                                       *)
(*       plot_histograms, plot_distributions, plot_distribution_specie     *)
(*                                                                         *)
(* A call is modelled as one action for the statements before the loop     *)
(* (argument binding, filtering, plt.subplots) and one action per loop     *)
(* iteration; the last iteration also runs the statements after the loop   *)
(* and returns.  Row and column indices are 0-based as in the source.      *)
(* Percentages are exact rationals [num, den]; formatted annotations are   *)
(* integers in hundredths of a percent.                                    *)
(***************************************************************************)
EXTENDS Integers, Sequences, FiniteSets, TLC

VARIABLES
    df,                \* the table passed to the call: a sequence of rows
    fn,                \* the renderer being called ("" before the call)
    category_columns,  \* selector list of categorical column names
    numeric_columns,   \* selector list of numeric column names
    numerical_stats,   \* statistics table of plot_histograms
    plot_type,         \* plot_type of plot_categorical_vs_numeric
    kde,               \* kde toggle of plot_histograms
    species,           \* species label of plot_distribution_specie
    species_data,      \* the filtered table of plot_distribution_specie
    fig,               \* the figure: [built, nrows, ncols, suptitle]
    axs,               \* what the name axs/ax is bound to (see Squeeze)
    panels,            \* the Axes of the figure, by grid cell <<row, col>>
    i,                 \* outer loop index
    j,                 \* inner loop index
    pc,                \* "idle", "loop", "returned" or "raised"
    err                \* the exception that ended the call ("" if none)

vars == <<df, fn, category_columns, numeric_columns, numerical_stats,
          plot_type, kde, species, species_data, fig, axs, panels, i, j,
          pc, err>>

args == <<df, fn, category_columns, numeric_columns, numerical_stats,
          plot_type, kde, species, species_data>>

----------------------------------------------------------------------------
(* Bounds of the input space.                                              *)

MaxRows == 3
MaxCat == 3
MaxNum == 2

----------------------------------------------------------------------------
(* Input domains.                                                          *)

NA == "NaN"

SpeciesLabels == {"Adelie", "Gentoo"}
IslandLabels == {"Biscoe", "Dream"}
CategoryNames == {"species", "island"}
NumericNames == {"bill_length_mm", "body_mass_g"}
PlotTypes == {"violin", "box", "scatter"}
SpeciesArgs == {"Adelie", "Chinstrap"}
StatValues == {<<392, 485, 439>>, <<15, 19, 17>>}

\* Code-point order of the category labels (what sort_index compares).
Alphabet == <<"Adelie", "Biscoe", "Chinstrap", "Dream", "Gentoo", "Torgersen">>

Rank(l) == CHOOSE k \in 1..Len(Alphabet) : Alphabet[k] = l

SeqsUpTo(S, n) == UNION {[1..m -> S] : m \in 0..n}

Rows == [species : SpeciesLabels, island : IslandLabels \cup {NA}]

Tables == SeqsUpTo(Rows, MaxRows)

CategorySelectors == SeqsUpTo(CategoryNames, MaxCat)

NumericSelectors == SeqsUpTo(NumericNames, MaxNum)

StatColumns == [name : NumericNames, q1 : {v[1] : v \in StatValues},
                q3 : {v[2] : v \in StatValues}, mean : {v[3] : v \in StatValues}]

\* Statistics tables: one column per numeric column name, names distinct.
StatTables ==
    {s \in SeqsUpTo({c \in StatColumns : <<c.q1, c.q3, c.mean>> \in StatValues}, MaxNum) :
        \A a, b \in 1..Len(s) : s[a].name = s[b].name => a = b}

----------------------------------------------------------------------------
(* matplotlib: figures, panels, indexing.                                  *)

NoFig == [built |-> FALSE, nrows |-> 0, ncols |-> 0, suptitle |-> ""]

\* A fresh Axes: nothing drawn, empty title and labels, default y-range.
BlankPanel ==
    [kind |-> "", x |-> "", y |-> "", hue |-> "", data |-> <<>>,
     split |-> FALSE, multiple |-> "", bars |-> <<>>, texts |-> <<>>,
     curves |-> 0, vlines |-> <<>>, legend |-> FALSE,
     title |-> "", xlabel |-> "", ylabel |-> "", ylim |-> <<0, 1>>]

Cells(nrows, ncols) == (0..(nrows - 1)) \X (0..(ncols - 1))

\* plt.subplots rejects a grid with no rows or no columns.
SubplotsOk(nrows, ncols) == nrows >= 1 /\ ncols >= 1

\* plt.subplots(nrows, ncols) with the default squeeze=True returns a single
\* Axes for a 1x1 grid, a 1-D array for one row or one column, and a 2-D
\* array otherwise.
Squeeze(nrows, ncols) ==
    IF nrows = 1 /\ ncols = 1 THEN "Axes"
    ELSE IF nrows = 1 \/ ncols = 1 THEN "array1d"
    ELSE "array2d"

\* axs[k]: the exception it raises, "" when it yields an Axes.
Index1(a) ==
    IF a = "Axes" THEN "TypeError" ELSE ""

\* axs[r, c]
IndexTuple(a) ==
    IF a = "Axes" THEN "TypeError"
    ELSE IF a = "array1d" THEN "IndexError"
    ELSE ""

\* axs[r][c]: on a 1-D array axs[r] is an Axes, which is not subscriptable.
IndexChain(a) ==
    IF a = "array2d" THEN "" ELSE "TypeError"

\* Python's None as an argument of set_title / set_xlabel / set_ylabel.
None == "<None>"

\* Text.set_text(s): None is stored as the empty string.
set_text(s) == IF s = None THEN "" ELSE s

PlotTypeError == "ValueError: plot_type must be either 'violin' or 'box'"
GridError == "ValueError: Number of rows and columns must be a positive integer"

\* The charting layer on the data it is handed: it draws, or (on empty
\* input, depending on the library version) raises.
ChartLayer(data) ==
    IF data = <<>> THEN {"", "ChartError"} ELSE {""}

----------------------------------------------------------------------------
(* pandas: value_counts, sort_index.                                       *)

\* df[category] with missing values dropped (value_counts has dropna=True).
RECURSIVE dropna(_)
dropna(s) ==
    IF s = <<>> THEN <<>>
    ELSE IF Head(s) = NA THEN dropna(Tail(s))
    ELSE <<Head(s)>> \o dropna(Tail(s))

column(t, c) == [k \in 1..Len(t) |-> t[k][c]]

RECURSIVE count_of(_, _)
count_of(s, v) ==
    IF s = <<>> THEN 0
    ELSE (IF Head(s) = v THEN 1 ELSE 0) + count_of(Tail(s), v)

\* Distinct values in order of first appearance.
RECURSIVE unique(_)
unique(s) ==
    IF s = <<>> THEN <<>>
    ELSE LET u == unique(SubSeq(s, 1, Len(s) - 1))
             v == s[Len(s)]
         IN  IF \E k \in 1..Len(u) : u[k] = v THEN u ELSE Append(u, v)

\* Stable insertion of entry e into a sequence sorted by count, descending.
RECURSIVE insert_by_count(_, _)
insert_by_count(sorted, e) ==
    IF sorted = <<>> THEN <<e>>
    ELSE IF Head(sorted).count >= e.count
         THEN <<Head(sorted)>> \o insert_by_count(Tail(sorted), e)
         ELSE <<e>> \o sorted

RECURSIVE sort_by_count(_)
sort_by_count(s) ==
    IF s = <<>> THEN <<>>
    ELSE insert_by_count(sort_by_count(SubSeq(s, 1, Len(s) - 1)), s[Len(s)])

\* Series.value_counts(): one entry per distinct non-missing value, most
\* frequent first, ties in order of first appearance.
value_counts(s) ==
    LET vals == dropna(s)
        u == unique(vals)
    IN  sort_by_count([k \in 1..Len(u) |->
            [label |-> u[k], count |-> count_of(vals, u[k])]])

\* Faulty variant: the counts are divided by the number of all rows, the
\* missing ones included (value_counts(normalize=True, dropna=False)).
proportions_of_all_rows(s) ==
    LET vc == value_counts(s)
    IN  [k \in 1..Len(vc) |->
            [label |-> vc[k].label, num |-> vc[k].count * 100, den |-> Len(s)]]

\* Faulty variant: the fractions are not scaled to percentages.
proportions_of_fraction(s) ==
    LET vc == value_counts(s)
        n == Len(dropna(s))
    IN  [k \in 1..Len(vc) |->
            [label |-> vc[k].label, num |-> vc[k].count, den |-> n]]

\* value_counts(normalize=True) * 100: each count over the number of
\* non-missing values, times 100, as the rational num/den.
proportions_of(s) ==
    LET vc == value_counts(s)
        n == Len(dropna(s))
    IN  [k \in 1..Len(vc) |->
            [label |-> vc[k].label, num |-> vc[k].count * 100, den |-> n]]

RECURSIVE insert_by_label(_, _)
insert_by_label(sorted, e) ==
    IF sorted = <<>> THEN <<e>>
    ELSE IF Rank(Head(sorted).label) <= Rank(e.label)
         THEN <<Head(sorted)>> \o insert_by_label(Tail(sorted), e)
         ELSE <<e>> \o sorted

\* Faulty variant: the Series is left in value_counts order.
sort_index_skipped(s) == s

\* Series.sort_index(): ascending by label.
RECURSIVE sort_index(_)
sort_index(s) ==
    IF s = <<>> THEN <<>>
    ELSE insert_by_label(sort_index(SubSeq(s, 1, Len(s) - 1)), s[Len(s)])

\* f"{height:.2f}": the rational num/den rounded to hundredths (ties to
\* even), as an integer number of hundredths.
format_2f(num, den) ==
    LET q == (num * 100) \div den
        r == (num * 100) % den
    IN  IF 2 * r > den THEN q + 1
        ELSE IF 2 * r = den THEN q + (q % 2)
        ELSE q

----------------------------------------------------------------------------
(* Control flow shared by the renderers.                                   *)

\* An exception leaves the call; the figure stays as it is.
Raise(e) ==
    /\ pc' = "raised"
    /\ err' = e
    /\ UNCHANGED <<fig, axs, panels, i, j>>

\* fig, axs = plt.subplots(nrows, ncols, ...), then the loop is entered.
\* wrap is the rebinding axs = [axs] of a single Axes.
Subplots(nrows, ncols, wrap) ==
    IF SubplotsOk(nrows, ncols)
    THEN /\ fig' = [built |-> TRUE, nrows |-> nrows, ncols |-> ncols,
                    suptitle |-> ""]
         /\ axs' = IF wrap /\ Squeeze(nrows, ncols) = "Axes"
                   THEN "list" ELSE Squeeze(nrows, ncols)
         /\ panels' = [c \in Cells(nrows, ncols) |-> BlankPanel]
         /\ i' = 0
         /\ j' = 0
         /\ pc' = "loop"
         /\ err' = ""
    ELSE /\ pc' = "raised"
         /\ err' = GridError
         /\ UNCHANGED <<fig, axs, panels, i, j>>

\* End of one iteration of "for i, ... in enumerate(<list of n>)".
NextInRow(n) ==
    /\ i' = i + 1
    /\ j' = j
    /\ pc' = IF i + 1 < n THEN "loop" ELSE "returned"
    /\ err' = ""

\* End of one iteration of the inner loop of a nested loop over R x C.
NextInGrid(R, C) ==
    /\ i' = IF j + 1 < C THEN i ELSE i + 1
    /\ j' = IF j + 1 < C THEN j + 1 ELSE 0
    /\ pc' = IF j + 1 < C \/ i + 1 < R THEN "loop" ELSE "returned"
    /\ err' = ""

----------------------------------------------------------------------------
(* cateogry.py: plot_category_count                                        *)

\* sns.countplot: one bar per distinct value, in order of appearance, as
\* high as the value's number of occurrences; seaborn labels both axes.
countplot(p, category, data) ==
    LET vals == dropna(column(data, category))
        u == unique(vals)
    IN  [p EXCEPT !.kind = "countplot", !.x = category, !.data = data,
                  !.bars = [k \in 1..Len(u) |->
                      [label |-> u[k], num |-> count_of(vals, u[k]), den |-> 1]],
                  !.xlabel = category, !.ylabel = "count"]

Call_plot_category_count ==
    /\ pc = "idle"
    /\ \E cols \in CategorySelectors :
        /\ fn' = "plot_category_count"
        /\ category_columns' = cols
        /\ Subplots(1, Len(cols), FALSE)
    /\ UNCHANGED <<df, numeric_columns, numerical_stats, plot_type, kde,
                   species, species_data>>

Loop_plot_category_count ==
    /\ pc = "loop"
    /\ fn = "plot_category_count"
    /\ LET category == category_columns[i + 1]
       IN  IF Index1(axs) # ""
           THEN Raise(Index1(axs))
           ELSE \E outcome \in ChartLayer(df) :
                IF outcome # ""
                THEN Raise(outcome)
                ELSE /\ panels' = [panels EXCEPT ![<<0, i>>] =
                            [countplot(@, category, df) EXCEPT
                                !.title = set_text(category \o " Count"),
                                !.xlabel = set_text(category),
                                !.ylabel = set_text("Count")]]
                     /\ NextInRow(Len(category_columns))
                     /\ UNCHANGED <<fig, axs>>
    /\ UNCHANGED args

----------------------------------------------------------------------------
(* cateogry.py: plot_category_proportions                                  *)

\* sns.barplot over proportions_df: one bar per row of the frame, in the
\* frame's order, as high as the row's proportion.
barplot(p, proportions) ==
    [p EXCEPT !.kind = "barplot", !.x = "category", !.y = "proportion",
              !.bars = proportions,
              !.xlabel = "category", !.ylabel = "proportion"]

\* for p in axs[i].patches: axs[i].text(..., height + 1, f"{height:.2f}%")
annotate(p) ==
    [p EXCEPT !.texts = [k \in 1..Len(p.bars) |->
        [bar |-> k,
         y_num |-> p.bars[k].num + p.bars[k].den, y_den |-> p.bars[k].den,
         s |-> format_2f(p.bars[k].num, p.bars[k].den)]]]

\* axs[i].set_ylim(0.0, 100)
proportion_ylim == <<0, 100>>

Call_plot_category_proportions ==
    /\ pc = "idle"
    /\ \E cols \in CategorySelectors :
        /\ fn' = "plot_category_proportions"
        /\ category_columns' = cols
        /\ Subplots(1, Len(cols), TRUE)
    /\ UNCHANGED <<df, numeric_columns, numerical_stats, plot_type, kde,
                   species, species_data>>

Loop_plot_category_proportions ==
    /\ pc = "loop"
    /\ fn = "plot_category_proportions"
    /\ LET category == category_columns[i + 1]
           proportions == sort_index(proportions_of(column(df, category)))
       IN  \E outcome \in ChartLayer(proportions) :
           IF outcome # ""
           THEN Raise(outcome)
           ELSE /\ panels' = [panels EXCEPT ![<<0, i>>] =
                       [annotate(barplot(@, proportions)) EXCEPT
                           !.title = set_text("Proportion of " \o category),
                           !.xlabel = set_text(category),
                           !.ylabel = set_text("Proportion (%)"),
                           !.ylim = proportion_ylim]]
                /\ NextInRow(Len(category_columns))
                /\ UNCHANGED <<fig, axs>>
    /\ UNCHANGED args

----------------------------------------------------------------------------
(* numerical.py: plot_histograms                                           *)

\* sns.histplot: the histogram bars, and with kde one density curve per
\* group of a non-empty sample, appended to the panel's lines.
histplot(p, data, x, hue, multiple, with_kde) ==
    [p EXCEPT !.kind = "histplot", !.x = x, !.hue = hue, !.data = data,
              !.multiple = multiple,
              !.curves = IF with_kde /\ data # <<>> THEN 1 ELSE 0,
              !.xlabel = x, !.ylabel = "Count"]

\* ax[i].axvline(x=..., linestyle="dashed", label=...)
axvline(p, x, label) ==
    [p EXCEPT !.vlines = Append(@, [x |-> x, linestyle |-> "dashed",
                                    label |-> label])]

\* numerical_stats.loc[stat, col]
loc(stats, stat, col) ==
    LET c == CHOOSE c \in {stats[k] : k \in 1..Len(stats)} : c.name = col
    IN  IF stat = "25%" THEN c.q1 ELSE IF stat = "75%" THEN c.q3 ELSE c.mean

Call_plot_histograms ==
    /\ pc = "idle"
    /\ \E stats \in StatTables, k \in BOOLEAN :
        /\ fn' = "plot_histograms"
        /\ numerical_stats' = stats
        /\ kde' = k
        /\ Subplots(1, Len(stats), FALSE)
    /\ UNCHANGED <<df, category_columns, numeric_columns, plot_type,
                   species, species_data>>

Loop_plot_histograms ==
    /\ pc = "loop"
    /\ fn = "plot_histograms"
    /\ LET col == numerical_stats[i + 1].name
       IN  IF Index1(axs) # ""
           THEN Raise(Index1(axs))
           ELSE \E outcome \in ChartLayer(df) :
                IF outcome # ""
                THEN Raise(outcome)
                ELSE LET drawn == histplot(panels[<<0, i>>], df, col, "", "layer", kde)
                     IN  IF drawn.curves = 0
                         THEN \* ax[i].lines[0] on an empty list of lines
                              /\ pc' = "raised"
                              /\ err' = "IndexError"
                              /\ panels' = [panels EXCEPT ![<<0, i>>] = drawn]
                              /\ UNCHANGED <<fig, axs, i, j>>
                         ELSE /\ panels' = [panels EXCEPT ![<<0, i>>] =
                                     [axvline(axvline(axvline(drawn,
                                         loc(numerical_stats, "25%", col), "Q1"),
                                         loc(numerical_stats, "75%", col), "Q3"),
                                         loc(numerical_stats, "mean", col), "Mean")
                                      EXCEPT !.legend = TRUE]]
                              /\ NextInRow(Len(numerical_stats))
                              /\ UNCHANGED <<fig, axs>>
    /\ UNCHANGED args

----------------------------------------------------------------------------
(* Specification of the single-row renderers.                              *)

Idle ==
    /\ fn = ""
    /\ category_columns = <<>>
    /\ numeric_columns = <<>>
    /\ numerical_stats = <<>>
    /\ plot_type = ""
    /\ kde = FALSE
    /\ species = ""
    /\ species_data = <<>>
    /\ fig = NoFig
    /\ axs = ""
    /\ panels = <<>>
    /\ i = 0
    /\ j = 0
    /\ pc = "idle"
    /\ err = ""

InitRow ==
    /\ df \in Tables
    /\ Idle

NextRow ==
    \/ Call_plot_category_count
    \/ Loop_plot_category_count
    \/ Call_plot_category_proportions
    \/ Loop_plot_category_proportions
    \/ Call_plot_histograms
    \/ Loop_plot_histograms

SpecRow == InitRow /\ [][NextRow]_vars

----------------------------------------------------------------------------
(* cateogry.py: plot_categorical_vs_numeric                                *)

\* Faulty variant: the third row counted from one.
violin_split_from_one(row) == row = 3

\* split=True if i == 2 else False
violin_split(row) == row = 2

\* sns.violinplot(split=..., data=df, x="species", y=j_col, hue=i_col)
violinplot(p, data, y, hue, split) ==
    [p EXCEPT !.kind = "violinplot", !.x = "species", !.y = y, !.hue = hue,
              !.data = data, !.split = split,
              !.xlabel = "species", !.ylabel = y]

\* sns.boxplot(data=df, x="species", y=j_col, hue=i_col)
boxplot(p, data, y, hue) ==
    [p EXCEPT !.kind = "boxplot", !.x = "species", !.y = y, !.hue = hue,
              !.data = data,
              !.xlabel = "species", !.ylabel = y]

\* Faulty variant: every row is given the column title.
catnum_title_every_row(row, j_col) == j_col

\* j_col if i == 0 else None
catnum_title(row, j_col) == IF row = 0 THEN j_col ELSE None

\* axs[i][j].set_title(...); .set_xlabel(None); .set_ylabel(None)
catnum_labels(p, row, j_col) ==
    [p EXCEPT !.title = set_text(catnum_title(row, j_col)),
              !.xlabel = set_text(None),
              !.ylabel = set_text(None)]

Call_plot_categorical_vs_numeric ==
    /\ pc = "idle"
    /\ \E cats \in CategorySelectors, nums \in NumericSelectors, pt \in PlotTypes :
        /\ fn' = "plot_categorical_vs_numeric"
        /\ category_columns' = cats
        /\ numeric_columns' = nums
        /\ plot_type' = pt
        /\ Subplots(Len(cats), Len(nums), FALSE)
    /\ UNCHANGED <<df, numerical_stats, kde, species, species_data>>

Loop_plot_categorical_vs_numeric ==
    /\ pc = "loop"
    /\ fn = "plot_categorical_vs_numeric"
    /\ LET i_col == category_columns[i + 1]
           j_col == numeric_columns[j + 1]
           access == IF plot_type = "violin" THEN IndexTuple(axs)
                     ELSE IndexChain(axs)
       IN  IF plot_type \notin {"violin", "box"}
           THEN Raise(PlotTypeError)
           ELSE IF access # ""
           THEN Raise(access)
           ELSE \E outcome \in ChartLayer(df) :
                IF outcome # ""
                THEN Raise(outcome)
                ELSE /\ panels' = [panels EXCEPT ![<<i, j>>] =
                            catnum_labels(
                                IF plot_type = "violin"
                                THEN violinplot(@, df, j_col, i_col, violin_split(i))
                                ELSE boxplot(@, df, j_col, i_col),
                                i, j_col)]
                     /\ NextInGrid(Len(category_columns), Len(numeric_columns))
                     /\ UNCHANGED <<fig, axs>>
    /\ UNCHANGED args

----------------------------------------------------------------------------
(* numerical.py: plot_distributions                                        *)

\* multiple="stack" if 1 == 2 else "dodge"
distributions_multiple == IF 1 = 2 THEN "stack" ELSE "dodge"

\* (j_col) if i == 0 else None
distributions_title(row, j_col) == IF row = 0 THEN j_col ELSE None

\* axs[i][j].set_title(...); axs[i, j].set_xlabel(None); .set_ylabel(None)
distributions_labels(p, row, j_col) ==
    [p EXCEPT !.title = set_text(distributions_title(row, j_col)),
              !.xlabel = set_text(None),
              !.ylabel = set_text(None)]

Call_plot_distributions ==
    /\ pc = "idle"
    /\ \E cats \in CategorySelectors, nums \in NumericSelectors :
        /\ fn' = "plot_distributions"
        /\ category_columns' = cats
        /\ numeric_columns' = nums
        /\ Subplots(Len(cats), Len(nums), FALSE)
    /\ UNCHANGED <<df, numerical_stats, plot_type, kde, species, species_data>>

Loop_plot_distributions ==
    /\ pc = "loop"
    /\ fn = "plot_distributions"
    /\ LET i_col == category_columns[i + 1]
           j_col == numeric_columns[j + 1]
       IN  IF IndexChain(axs) # ""
           THEN Raise(IndexChain(axs))
           ELSE \E outcome \in ChartLayer(df) :
                IF outcome # ""
                THEN Raise(outcome)
                ELSE /\ panels' = [panels EXCEPT ![<<i, j>>] =
                            distributions_labels(
                                histplot(@, df, j_col, i_col,
                                         distributions_multiple, TRUE),
                                i, j_col)]
                     /\ NextInGrid(Len(category_columns), Len(numeric_columns))
                     /\ UNCHANGED <<fig, axs>>
    /\ UNCHANGED args

----------------------------------------------------------------------------
(* numerical.py: plot_distribution_specie                                  *)

\* df[df["species"] == species]
filter_species(t, label) ==
    SelectSeq(t, LAMBDA row : row.species = label)

\* set_ylabel(numeric_columns[i], ...) if j == 0 else set_ylabel(None)
specie_ylabel(col, i_col) == IF col = 0 THEN i_col ELSE None

specie_labels(p, col, i_col) ==
    [p EXCEPT !.ylabel = set_text(specie_ylabel(col, i_col)),
              !.xlabel = set_text(None)]

Call_plot_distribution_specie ==
    /\ pc = "idle"
    /\ \E nums \in NumericSelectors, cats \in CategorySelectors,
          label \in SpeciesArgs :
        /\ fn' = "plot_distribution_specie"
        /\ numeric_columns' = nums
        /\ category_columns' = cats
        /\ species' = label
        /\ species_data' = filter_species(df, label)
        /\ Subplots(Len(nums), Len(cats), FALSE)
    /\ UNCHANGED <<df, numerical_stats, plot_type, kde>>

Loop_plot_distribution_specie ==
    /\ pc = "loop"
    /\ fn = "plot_distribution_specie"
    /\ LET i_col == numeric_columns[i + 1]
           j_col == category_columns[j + 1]
           R == Len(numeric_columns)
           C == Len(category_columns)
       IN  IF IndexChain(axs) # ""
           THEN Raise(IndexChain(axs))
           ELSE \E outcome \in ChartLayer(species_data) :
                IF outcome # ""
                THEN Raise(outcome)
                ELSE /\ panels' = [panels EXCEPT ![<<i, j>>] =
                            specie_labels(
                                histplot(@, species_data, i_col, j_col,
                                         "layer", TRUE),
                                j, numeric_columns[i + 1])]
                     /\ NextInGrid(R, C)
                     \* after the loops: fig.suptitle(f"{species} Species")
                     /\ fig' = IF j + 1 < C \/ i + 1 < R THEN fig
                               ELSE [fig EXCEPT !.suptitle = species \o " Species"]
                     /\ UNCHANGED axs
    /\ UNCHANGED args

----------------------------------------------------------------------------
(* Specification of the R x C grid renderers of categories against         *)
(* numeric columns.  They hand df to the charting layer unread, so the     *)
(* tables are the empty one and the one-row ones.                          *)

InitGrid ==
    /\ df \in {t \in Tables : Len(t) <= 1}
    /\ Idle

NextGrid ==
    \/ Call_plot_categorical_vs_numeric
    \/ Loop_plot_categorical_vs_numeric
    \/ Call_plot_distributions
    \/ Loop_plot_distributions

SpecGrid == InitGrid /\ [][NextGrid]_vars

----------------------------------------------------------------------------
(* Specification of the species-filtered renderer.                         *)

InitSpecie ==
    /\ df \in Tables
    /\ Idle

NextSpecie ==
    \/ Call_plot_distribution_specie
    \/ Loop_plot_distribution_specie

SpecSpecie == InitSpecie /\ [][NextSpecie]_vars

----------------------------------------------------------------------------
(* Vocabulary of the properties.                                           *)

SingleRow == {"plot_category_count", "plot_category_proportions", "plot_histograms"}
Grid == {"plot_categorical_vs_numeric", "plot_distributions"}

Ended == pc \in {"returned", "raised"}

\* Number of rows of t holding v in column c.
CountRows(t, c, v) == Cardinality({k \in 1..Len(t) : t[k][c] = v})

\* Number of rows of t holding any value in column c.
NonMissing(t, c) == Cardinality({k \in 1..Len(t) : t[k][c] # NA})

DistinctValues(t, c) == {t[k][c] : k \in 1..Len(t)} \ {NA}

\* The panels plot_category_proportions has drawn so far.
ProportionCells ==
    {cell \in DOMAIN panels :
        fn = "plot_category_proportions" /\ panels[cell].kind = "barplot"}

ColumnOf(cell) == category_columns[cell[2] + 1]

RECURSIVE ProductOfDens(_)
ProductOfDens(bars) ==
    IF bars = <<>> THEN 1 ELSE Head(bars).den * ProductOfDens(Tail(bars))

RECURSIVE ScaledSum(_, _)
ScaledSum(bars, D) ==
    IF bars = <<>> THEN 0
    ELSE Head(bars).num * (D \div Head(bars).den) + ScaledSum(Tail(bars), D)

\* The bar heights of a panel add up to exactly 100.
HeightsSumTo100(p) ==
    ScaledSum(p.bars, ProductOfDens(p.bars)) = 100 * ProductOfDens(p.bars)

RECURSIVE SumOfTexts(_)
SumOfTexts(texts) ==
    IF texts = <<>> THEN 0 ELSE Head(texts).s + SumOfTexts(Tail(texts))

Abs(n) == IF n < 0 THEN 0 - n ELSE n

\* One bar per distinct value of the column, each of height
\* (rows holding the value) / total[column] * 100.
HeightsOver(total) ==
    \A cell \in ProportionCells :
        LET p == panels[cell]
            c == ColumnOf(cell)
        IN  /\ {p.bars[k].label : k \in 1..Len(p.bars)} = DistinctValues(df, c)
            /\ Len(p.bars) = Cardinality(DistinctValues(df, c))
            /\ \A k \in 1..Len(p.bars) :
                p.bars[k].num * total[c] =
                    100 * CountRows(df, c, p.bars[k].label) * p.bars[k].den

----------------------------------------------------------------------------
(* C1.  plot_categorical_vs_numeric with a plot_type other than 'violin'   *)
(* and 'box': whatever the selector lists, the call ends in the            *)
(* descriptive plot_type error and in no other, and the error comes before *)
(* the figure is constructed and before any panel is drawn or modified.    *)
C1_InvalidPlotTypeFailsFast ==
    (fn = "plot_categorical_vs_numeric" /\ plot_type \notin {"violin", "box"})
        => /\ pc # "returned"
           /\ pc = "raised" => err = PlotTypeError
           /\ ~fig.built
           /\ \A cell \in DOMAIN panels : panels[cell] = BlankPanel

----------------------------------------------------------------------------
(* C2.  Each single-row renderer, for a selector list of length N >= 1     *)
(* (N = 1 included), completes with exactly N panels, panel i drawn from   *)
(* selector element i.  (Stated in the claim's favour: an error of the     *)
(* charting layer on an empty table is let through, and plot_histograms    *)
(* is taken with its default kde=True.)                                    *)
RowSelector ==
    IF fn = "plot_histograms"
    THEN [k \in 1..Len(numerical_stats) |-> numerical_stats[k].name]
    ELSE category_columns

C2_SingleRowPanels ==
    (fn \in SingleRow /\ Len(RowSelector) >= 1 /\ (fn = "plot_histograms" => kde))
        => /\ pc = "raised" => err = "ChartError"
           /\ pc = "returned" =>
                /\ DOMAIN panels = Cells(1, Len(RowSelector))
                /\ \A n \in 0..(Len(RowSelector) - 1) :
                    /\ panels[<<0, n>>].kind # ""
                    /\ fn = "plot_category_proportions"
                        => panels[<<0, n>>].title = "Proportion of " \o RowSelector[n + 1]
                    /\ fn # "plot_category_proportions"
                        => panels[<<0, n>>].x = RowSelector[n + 1]

----------------------------------------------------------------------------
(* C3.  plot_categorical_vs_numeric (with a recognised plot_type) and      *)
(* plot_distributions, for R >= 1 categorical and C >= 1 numeric columns   *)
(* (R = 1 or C = 1 included), complete with exactly R*C panels, cell       *)
(* (i, j) drawn from categorical column i and numeric column j.  (An error *)
(* of the charting layer on an empty table is let through.)                *)
C3_GridPanels ==
    (/\ fn \in Grid
     /\ fn = "plot_categorical_vs_numeric" => plot_type \in {"violin", "box"}
     /\ Len(category_columns) >= 1
     /\ Len(numeric_columns) >= 1)
        => /\ pc = "raised" => err = "ChartError"
           /\ pc = "returned" =>
                /\ DOMAIN panels = Cells(Len(category_columns), Len(numeric_columns))
                /\ \A cell \in DOMAIN panels :
                    /\ panels[cell].hue = category_columns[cell[1] + 1]
                    /\ IF fn = "plot_distributions"
                       THEN panels[cell].x = numeric_columns[cell[2] + 1]
                       ELSE panels[cell].y = numeric_columns[cell[2] + 1]

----------------------------------------------------------------------------
(* C4 as claimed.  plot_category_proportions: the bar of each distinct     *)
(* value is as high as (rows holding the value) / (all rows of the table)  *)
(* * 100, also when rows have a missing value in the column.               *)
C4_HeightOverAllRows ==
    HeightsOver([c \in CategoryNames |-> Len(df)])

(* C4 as amended.  plot_category_proportions: the bar of each distinct     *)
(* value is as high as (rows holding the value) / (rows holding any value  *)
(* in that column) * 100; rows with a missing value are left out of the    *)
(* total.                                                                  *)
C4_HeightOverNonMissingRows ==
    HeightsOver([c \in CategoryNames |-> NonMissing(df, c)])

\* A drawn panel of a column in which one row holds a value and another none.
C4_Witness ==
    \E cell \in ProportionCells :
        /\ Len(panels[cell].bars) >= 1
        /\ NonMissing(df, ColumnOf(cell)) < Len(df)

----------------------------------------------------------------------------
(* C5 as claimed.  plot_category_proportions: for every table and column   *)
(* the bar heights of the column's panel add up to 100, and once the call  *)
(* is over every panel's y-range is [0, 100].                              *)
C5_SumIs100Always ==
    /\ \A cell \in ProportionCells : HeightsSumTo100(panels[cell])
    /\ (fn = "plot_category_proportions" /\ Ended)
        => \A cell \in DOMAIN panels : panels[cell].ylim = <<0, 100>>

(* C5 as amended.  plot_category_proportions: for every column holding at  *)
(* least one value the bar heights of its panel add up to 100 (and the     *)
(* two-decimal annotations to 100 within half a hundredth per bar); every  *)
(* panel the call has drawn has the y-range [0, 100], so after a call that *)
(* returns every panel has.  A column holding no value gets no bar.        *)
C5_SumIs100WhenValued ==
    /\ \A cell \in ProportionCells :
        LET p == panels[cell]
        IN  /\ p.ylim = <<0, 100>>
            /\ IF NonMissing(df, ColumnOf(cell)) >= 1
               THEN /\ HeightsSumTo100(p)
                    /\ 2 * Abs(SumOfTexts(p.texts) - 10000) <= Len(p.texts)
               ELSE p.bars = <<>>
    /\ (fn = "plot_category_proportions" /\ pc = "returned")
        => /\ DOMAIN panels = ProportionCells
           /\ \A cell \in DOMAIN panels : panels[cell].ylim = <<0, 100>>

\* A returned call with a panel of three rows split 2 : 1 (66.67% + 33.33%).
C5_Witness ==
    /\ fn = "plot_category_proportions"
    /\ pc = "returned"
    /\ \E cell \in ProportionCells :
        /\ Len(panels[cell].bars) = 2
        /\ panels[cell].bars[1].den = 3

----------------------------------------------------------------------------
(* C6.  plot_category_proportions: in every panel the bars stand left to   *)
(* right in ascending order of category label, whatever the order and      *)
(* frequency of the values in the table, and bar k is annotated with the   *)
(* percentage (to two decimals) of the k-th label in that order.           *)
C6_BarsAscending ==
    \A cell \in ProportionCells :
        LET p == panels[cell]
            c == ColumnOf(cell)
        IN  /\ \A a, b \in 1..Len(p.bars) :
                a < b => Rank(p.bars[a].label) < Rank(p.bars[b].label)
            /\ Len(p.texts) = Len(p.bars)
            /\ \A k \in 1..Len(p.bars) :
                /\ p.texts[k].bar = k
                /\ 2 * Abs(p.texts[k].s * NonMissing(df, c)
                           - 10000 * CountRows(df, c, p.bars[k].label))
                        <= NonMissing(df, c)

\* A drawn panel of a column whose more frequent value has the later label.
C6_Witness ==
    \E cell \in ProportionCells :
        /\ ColumnOf(cell) = "species"
        /\ CountRows(df, "species", "Gentoo") > CountRows(df, "species", "Adelie")
        /\ CountRows(df, "species", "Adelie") >= 1
        /\ Len(panels[cell].texts) = 2

----------------------------------------------------------------------------
(* C7.  plot_histograms, for every column of the statistics table and for  *)
(* kde on as for kde off, completes, and the column's panel carries        *)
(* exactly three dashed vertical lines, at the table's "25%", "75%" and    *)
(* "mean" entries of the column, labelled "Q1", "Q3" and "Mean".  (Stated  *)
(* in the claim's favour for a non-empty table and two or more columns.)   *)
C7_ThreeReferenceLines ==
    (fn = "plot_histograms" /\ Len(numerical_stats) >= 2 /\ df # <<>>)
        => /\ pc # "raised"
           /\ pc = "returned" =>
                \A n \in 0..(Len(numerical_stats) - 1) :
                    panels[<<0, n>>].vlines =
                        << [x |-> numerical_stats[n + 1].q1,
                            linestyle |-> "dashed", label |-> "Q1"],
                           [x |-> numerical_stats[n + 1].q3,
                            linestyle |-> "dashed", label |-> "Q3"],
                           [x |-> numerical_stats[n + 1].mean,
                            linestyle |-> "dashed", label |-> "Mean"] >>

----------------------------------------------------------------------------
(* C8.  plot_categorical_vs_numeric and plot_distributions: after a        *)
(* completed call the panel at cell (i, j) has a non-empty title, the name *)
(* of numeric column j, if and only if i = 0, and no panel has an x-axis   *)
(* or a y-axis label.                                                      *)
C8_TitlesOnTopRowOnly ==
    (fn \in Grid /\ pc = "returned")
        => \A cell \in DOMAIN panels :
            /\ panels[cell].kind # ""
            /\ panels[cell].title # "" <=> cell[1] = 0
            /\ cell[1] = 0 => panels[cell].title = numeric_columns[cell[2] + 1]
            /\ panels[cell].xlabel = ""
            /\ panels[cell].ylabel = ""

\* A completed call whose grid has a row below the top one.
C8_Witness ==
    /\ fn \in Grid
    /\ pc = "returned"
    /\ fig.nrows >= 2
    /\ <<1, 1>> \in DOMAIN panels
    /\ panels[<<1, 1>>].kind # ""

----------------------------------------------------------------------------
(* C9.  plot_categorical_vs_numeric: with plot_type 'violin' the panel at  *)
(* cell (i, j) is drawn split if and only if i = 2, whichever column name  *)
(* is at that position; with plot_type 'box' no panel is drawn in a        *)
(* row-dependent mode.                                                     *)
C9_SplitOnThirdRowOnly ==
    fn = "plot_categorical_vs_numeric"
        => \A cell \in DOMAIN panels :
            LET p == panels[cell]
            IN  /\ p.kind \in {"", IF plot_type = "violin" THEN "violinplot"
                                   ELSE "boxplot"}
                /\ p.kind = "violinplot" => (p.split <=> cell[1] = 2)
                /\ p.kind # "violinplot" => ~p.split
                /\ p.kind # "" => p.hue = category_columns[cell[1] + 1]

\* A violin grid whose third row is drawn, with a column other than the
\* first two at that position.
C9_Witness ==
    /\ fn = "plot_categorical_vs_numeric"
    /\ plot_type = "violin"
    /\ pc = "returned"
    /\ <<2, 0>> \in DOMAIN panels
    /\ panels[<<2, 0>>].split
    /\ ~panels[<<1, 0>>].split
    /\ category_columns[3] # category_columns[2]

----------------------------------------------------------------------------
(* C10.  plot_distribution_specie: every panel is drawn from exactly the   *)
(* rows of the table whose species equals the requested label; when no row *)
(* matches, the renderer raises no error of its own (only the charting     *)
(* layer may, on the empty input) and still builds the R x C grid; only    *)
(* the panels of the leftmost column (j = 0) carry a y-axis label, the     *)
(* name of numeric column i, and no panel carries an x-axis label.         *)
ExactlyMatchingRows ==
    /\ \A k \in 1..Len(species_data) : species_data[k].species = species
    /\ \A r \in Rows :
        Cardinality({k \in 1..Len(species_data) : species_data[k] = r}) =
            IF r.species = species
            THEN Cardinality({k \in 1..Len(df) : df[k] = r})
            ELSE 0

C10_SpeciesFilteredGrid ==
    (fn = "plot_distribution_specie"
        /\ Len(numeric_columns) >= 1 /\ Len(category_columns) >= 1)
        => /\ ExactlyMatchingRows
           /\ (\A k \in 1..Len(df) : df[k].species # species)
                => /\ species_data = <<>>
                   /\ DOMAIN panels = Cells(Len(numeric_columns), Len(category_columns))
                   /\ pc = "raised" => err = "ChartError"
           /\ \A cell \in DOMAIN panels :
                LET p == panels[cell]
                IN  /\ p.kind # "" => p.data = species_data
                    /\ p.xlabel = ""
                    /\ p.ylabel # "" <=> (p.kind # "" /\ cell[2] = 0)
                    /\ p.ylabel # "" => p.ylabel = numeric_columns[cell[1] + 1]

====
